---- MODULE Spec2Model ----
(***************************************************************************)
(* Model of src/src/main.js: calculateSimpleRevenue, calculateBonusByProfit *)
(* and analyzeSalesData (validation, fold over purchase records and their   *)
(* line items, ranking by profit, bonus and top products, report).          *)
(*                                                                           *)
(* Money.  Input prices and amounts (sale_price, purchase_price,            *)
(* total_amount) are whole cents.  The accumulators seller.revenue and      *)
(* seller.profit and the value a revenue strategy returns are kept in       *)
(* hundredths of a cent, so that a strategy that does not round (and the    *)
(* rounding at output) is modelled exactly.  The report's revenue and       *)
(* profit are whole cents again.  A bonus rate is kept in hundredths        *)
(* (15 is 0.15).  Numbers are finite: no NaN, no Infinity.  The arithmetic  *)
(* of calculateSimpleRevenue is that of binary64 doubles; the sums of the   *)
(* accumulators are exact.                                                  *)
(*                                                                           *)
(* A SKU "SKU_k" is the integer k; products_sold is the sequence of its     *)
(* (sku, quantity) pairs in insertion order, which is the order             *)
(* Object.entries gives for such keys.                                      *)
(***************************************************************************)
EXTENDS Integers, Sequences, FiniteSets, TLC

VARIABLES
    args,                 \* what kind of value each argument and each field of it is
    sellers,              \* data.sellers: the seller ids, in input order
    products,             \* data.products: sku -> purchase_price (cents)
    purchase_records,     \* data.purchase_records, where the input is given whole
    options,              \* options.calculateRevenue, options.calculateBonus
    pc,                   \* position in analyzeSalesData
    sellerStats,          \* the accumulators, in data.sellers order
    record,               \* the purchase record being folded (seller_id, total_amount)
    item,                 \* the line item last taken from record.items
    nrec,                 \* purchase records taken so far
    nitem,                \* line items taken so far, over all records
    validPurchasesCount,  \* main.js:99
    skippedPurchases,     \* main.js:100
    skippedItems,         \* unknown-SKU warnings (main.js:123) for the current record
    revenueCalls,         \* calls of options.calculateRevenue so far
    lastRevenue,          \* main.js:131, what the last call returned; 0 when there is none
    sellersArray,         \* main.js:166, then sorted, then given bonus and top_products
    index,                \* the index of the bonus loop (main.js:179)
    bonusCalls,           \* the (index, total, seller id) of each calculateBonus call
    bonusFailed,          \* the indexes whose calculateBonus call threw (main.js:192)
    report,               \* the value returned (main.js:199)
    error,                \* the message of the Error thrown, or "none"
    ledger,               \* history: per seller id, what the records taken so far amount to
    calls,                \* the calls of analyzeSalesData on the same arguments so far
    firstReport           \* what the first of two calls returned

(* The arguments of analyzeSalesData *)
input == <<args, sellers, products, purchase_records, options>>

(* The caller of analyzeSalesData *)
caller == <<calls, firstReport>>

vars == <<input, caller, pc, sellerStats, record, item, nrec, nitem,
          validPurchasesCount, skippedPurchases, skippedItems, revenueCalls,
          lastRevenue, sellersArray, index, bonusCalls, bonusFailed, report, error,
          ledger>>

----------------------------------------------------------------------------
(* Bounds of the model *)

(* purchase records of the input *)
MaxRecords == 2
(* line items of the input, over all its records *)
MaxLineItems == 3
(* sellers of the input, where the ranking is checked *)
MaxSellers == 5
(* products of the input, where the top products are checked *)
MaxSkus == 11

(* the sale_price of a line item, in cents, where the default revenue       *)
(* strategy is checked alone                                                *)
MaxPrice == 10
(* the quantity of a line item, where the default revenue strategy is       *)
(* checked alone                                                            *)
MaxQuantity == 3

(* slice(0, 10), main.js:188 *)
TopN == 10

----------------------------------------------------------------------------
(* Helpers *)

Range(s) == {s[k] : k \in 1..Len(s)}

(* Math.round(x * 100) / 100 for x in hundredths of a cent, in cents:       *)
(* Math.round rounds a half towards +Infinity.                              *)
Round2(x) == (x + 50) \div 100

----------------------------------------------------------------------------
(* The Numbers of calculateSimpleRevenue.  A JavaScript Number is a binary64 *)
(* double: a significand of at most 53 bits times a power of two, and every *)
(* operation gives the double nearest to the exact result, a tie going to   *)
(* the even significand.  Here a double (not negative, finite) is           *)
(* [m |-> significand, e |-> exponent] and stands for m * 2^e; a            *)
(* significand is a natural number written in base Limb, least significant  *)
(* digit first, <<>> for 0.                                                 *)

Limb == 16384
LimbBits == 14
SignificandBits == 53

RECURSIVE Pow2(_)
Pow2(k) == IF k = 0 THEN 1 ELSE 2 * Pow2(k - 1)

RECURSIVE BitsOf(_)
BitsOf(n) == IF n = 0 THEN 0 ELSE 1 + BitsOf(n \div 2)

(* The digits of a number given by digits that may be Limb or more *)
RECURSIVE Carry(_, _)
Carry(s, c) ==
    IF s = <<>>
    THEN IF c = 0 THEN <<>> ELSE <<c % Limb>> \o Carry(<<>>, c \div Limb)
    ELSE <<(Head(s) + c) % Limb>> \o Carry(Tail(s), (Head(s) + c) \div Limb)

(* Without the zeros at the most significant end *)
RECURSIVE Trim(_)
Trim(a) ==
    IF a # <<>> /\ a[Len(a)] = 0 THEN Trim(SubSeq(a, 1, Len(a) - 1)) ELSE a

DigitAt(a, k) == IF k \in 1..Len(a) THEN a[k] ELSE 0

BigOf(n) == Carry(<<n>>, 0)

RECURSIVE SmallOf(_)
SmallOf(a) == IF a = <<>> THEN 0 ELSE Head(a) + Limb * SmallOf(Tail(a))

BigAdd(a, b) ==
    LET n == IF Len(a) > Len(b) THEN Len(a) ELSE Len(b)
    IN Carry([k \in 1..n |-> DigitAt(a, k) + DigitAt(b, k)], 0)

(* a - b for a >= b, digit by digit with the borrow *)
RECURSIVE Borrow(_, _, _)
Borrow(a, b, c) ==
    IF a = <<>> THEN <<>>
    ELSE LET t == Head(a) - DigitAt(b, 1) - c
             rest == IF b = <<>> THEN <<>> ELSE Tail(b)
         IN IF t < 0 THEN <<t + Limb>> \o Borrow(Tail(a), rest, 1)
            ELSE <<t>> \o Borrow(Tail(a), rest, 0)

BigSub(a, b) == Trim(Borrow(a, b, 0))

(* The sum of a[i] * b[j] over i + j = k + 1 *)
RECURSIVE Column(_, _, _, _)
Column(a, b, k, i) ==
    IF i = 0 THEN 0
    ELSE a[i] * DigitAt(b, k + 1 - i) + Column(a, b, k, i - 1)

BigMul(a, b) ==
    IF a = <<>> \/ b = <<>> THEN <<>>
    ELSE Carry([k \in 1..(Len(a) + Len(b) - 1) |-> Column(a, b, k, Len(a))], 0)

(* a * 2^k *)
ShiftLeft(a, k) ==
    LET q == k \div LimbBits
        r == k % LimbBits
    IN Carry([i \in 1..(Len(a) + q) |->
                 IF i <= q THEN 0 ELSE a[i - q] * Pow2(r)], 0)

(* a \div 2^k *)
ShiftRight(a, k) ==
    LET q == k \div LimbBits
        r == k % LimbBits
    IN IF Len(a) <= q THEN <<>>
       ELSE Trim([i \in 1..(Len(a) - q) |->
                    (a[i + q] \div Pow2(r))
                       + (DigitAt(a, i + q + 1) % Pow2(r)) * Pow2(LimbBits - r)])

BitLength(a) ==
    IF a = <<>> THEN 0 ELSE LimbBits * (Len(a) - 1) + BitsOf(a[Len(a)])

(* The bit of a of weight 2^k *)
BitAt(a, k) ==
    (DigitAt(a, k \div LimbBits + 1) \div Pow2(k % LimbBits)) % 2

(* a % 2^k = 0 *)
LowBitsZero(a, k) ==
    /\ \A i \in 1..(k \div LimbBits) : DigitAt(a, i) = 0
    /\ DigitAt(a, k \div LimbBits + 1) % Pow2(k % LimbBits) = 0

(* a \div d and a % d for a small d, from the most significant digit *)
RECURSIVE DivSmall(_, _)
DivSmall(a, d) ==
    IF a = <<>> THEN [q |-> <<>>, r |-> 0]
    ELSE LET high == DivSmall(Tail(a), d)
             t == high.r * Limb + Head(a)
         IN [q |-> <<t \div d>> \o high.q, r |-> t % d]

(* The double nearest to n * 2^e, a tie going to the even significand *)
RoundToDouble(n, e) ==
    LET drop == BitLength(n) - SignificandBits
    IN IF drop <= 0 THEN [m |-> n, e |-> e]
       ELSE LET kept == ShiftRight(n, drop)
                up == /\ BitAt(n, drop - 1) = 1
                      /\ (~LowBitsZero(n, drop - 1) \/ BitAt(n, drop) = 1)
            IN [m |-> IF up THEN BigAdd(kept, <<1>>) ELSE kept, e |-> e + drop]

(* The double of an integer below 2^31 *)
DoubleOf(n) == [m |-> BigOf(n), e |-> 0]

(* x * y *)
DoubleMul(x, y) == RoundToDouble(BigMul(x.m, y.m), x.e + y.e)

(* x - y for x >= y *)
DoubleSub(x, y) ==
    LET e == IF x.e < y.e THEN x.e ELSE y.e
    IN RoundToDouble(BigSub(ShiftLeft(x.m, x.e - e), ShiftLeft(y.m, y.e - e)), e)

(* The bits of the quotient computed by DoubleDiv before it is rounded *)
QuotientBits == 64

(* n / d for integers n >= 0 and d in 1..1000 with n >= d / 1000: the       *)
(* quotient to QuotientBits binary places, then a last bit that tells       *)
(* whether anything is left, rounded.  It is also the double that the       *)
(* decimal literal of n / d denotes.                                        *)
DoubleDiv(n, d) ==
    LET qr == DivSmall(ShiftLeft(BigOf(n), QuotientBits), d)
        sticky == IF qr.r = 0 THEN <<>> ELSE <<1>>
    IN RoundToDouble(BigAdd(ShiftLeft(Trim(qr.q), 1), sticky), -QuotientBits - 1)

(* Math.round(x): the integer nearest to x, a half going up *)
MathRound(x) ==
    IF x.e >= 0 THEN SmallOf(ShiftLeft(x.m, x.e))
    ELSE SmallOf(ShiftRight(BigAdd(x.m, ShiftLeft(<<1>>, -x.e - 1)), -x.e))

----------------------------------------------------------------------------
(* The strategies *)

(* const { discount = 0, ... } = purchase *)
Discount(purchase) ==
    IF "discount" \in DOMAIN purchase THEN purchase.discount ELSE 0

(* main.js:7-17.  sale_price is the double of its decimal literal, and      *)
(* what is returned, Math.round(revenue * 100) / 100, is the double of a    *)
(* literal of whole cents: it is given in hundredths of a cent.             *)
calculateSimpleRevenue(purchase, product) ==
    LET discount == Discount(purchase)
        sale_price == DoubleDiv(purchase.sale_price, 100)
        quantity == DoubleOf(purchase.quantity)
        discountMultiplier == DoubleSub(DoubleOf(1), DoubleDiv(discount, 100))
        revenue == DoubleMul(DoubleMul(sale_price, quantity), discountMultiplier)
    IN MathRound(DoubleMul(revenue, DoubleOf(100))) * 100

(* The values of calculateSimpleRevenue for the (sale_price, quantity,      *)
(* discount) of the line items the inputs of the fold are made of, computed *)
(* once.                                                                    *)
SimpleRevenueComputed ==
    [k \in {<<2000, 2, 0>>, <<2000, 1, 0>>, <<5, 1, 10>>, <<5, 1, 0>>} |->
        calculateSimpleRevenue(
            [sale_price |-> k[1], quantity |-> k[2], discount |-> k[3]], 0)]

(* calculateSimpleRevenue(purchase, product), looked up where it was        *)
(* computed before: it is a function of the three fields alone.             *)
SimpleRevenueOf(purchase, product) ==
    LET key == <<purchase.sale_price, purchase.quantity, Discount(purchase)>>
    IN IF key \in DOMAIN SimpleRevenueComputed
       THEN SimpleRevenueComputed[key]
       ELSE calculateSimpleRevenue(purchase, product)

(* A caller's strategy that does not round *)
rawRevenue(purchase, product) ==
    purchase.sale_price * purchase.quantity * (100 - Discount(purchase))

(* options.calculateRevenue(item, product): ok is FALSE when it throws.     *)
(* "strictRevenue" is a caller's strategy that throws on an item without a  *)
(* discount field.                                                          *)
CallRevenue(strategy, purchase, product) ==
    CASE strategy = "calculateSimpleRevenue" ->
            [ok |-> TRUE, value |-> SimpleRevenueOf(purchase, product)]
      [] strategy = "rawRevenue" ->
            [ok |-> TRUE, value |-> rawRevenue(purchase, product)]
      [] strategy = "strictRevenue" ->
            IF "discount" \in DOMAIN purchase
            THEN [ok |-> TRUE, value |-> SimpleRevenueOf(purchase, product)]
            ELSE [ok |-> FALSE, value |-> 0]

(* Mutant: the last place is tested against total instead of total - 1 *)
calculateBonusLastOffByOne(idx, total, seller) ==
    IF idx = 0 THEN 15
    ELSE IF idx = 1 \/ idx = 2 THEN 10
    ELSE IF idx = total THEN 0
    ELSE 5

calculateBonusByProfit(idx, total, seller) ==
    IF idx = 0 THEN 15
    ELSE IF idx = 1 \/ idx = 2 THEN 10
    ELSE IF idx = total - 1 THEN 0
    ELSE 5

(* options.calculateBonus(index, total, seller): ok is FALSE when it        *)
(* throws.  "failingBonus" is a caller's strategy that throws for the       *)
(* seller at index 1.                                                       *)
CallBonus(strategy, idx, total, seller) ==
    CASE strategy = "calculateBonusByProfit" ->
            [ok |-> TRUE, value |-> calculateBonusByProfit(idx, total, seller)]
      [] strategy = "failingBonus" ->
            IF idx = 1
            THEN [ok |-> FALSE, value |-> 0]
            ELSE [ok |-> TRUE, value |-> calculateBonusByProfit(idx, total, seller)]

----------------------------------------------------------------------------
(* The accumulators *)

NewStats(id) ==
    [id |-> id, revenue |-> 0, profit |-> 0, sales_count |-> 0,
     products_sold |-> <<>>]

(* Mutant: the accumulators of an earlier call are kept *)
InitialStatsKept(ss) ==
    IF Len(sellerStats) = Len(ss) THEN sellerStats
    ELSE [k \in 1..Len(ss) |-> NewStats(ss[k])]

(* data.sellers.map(...) *)
InitialStats(ss) == [k \in 1..Len(ss) |-> NewStats(ss[k])]

(* sellerIndex[seller_id]: the position of the accumulator, 0 for none      *)
(* (Object.fromEntries keeps the last entry of a key).                      *)
SellerPos(stats, id) ==
    IF \E k \in 1..Len(stats) : stats[k].id = id
    THEN CHOOSE k \in 1..Len(stats) :
            /\ stats[k].id = id
            /\ \A m \in 1..Len(stats) : stats[m].id = id => m <= k
    ELSE 0

(* products_sold[sku] += quantity, the key created at the end when absent   *)
AddSold(sold, sku, quantity) ==
    IF \E k \in 1..Len(sold) : sold[k].sku = sku
    THEN [k \in 1..Len(sold) |->
            IF sold[k].sku = sku
            THEN [sku |-> sku, quantity |-> sold[k].quantity + quantity]
            ELSE sold[k]]
    ELSE Append(sold, [sku |-> sku, quantity |-> quantity])

(* Mutant: the receipt is counted, its total_amount is not added *)
CountReceiptWithoutAmount(stats, pos, rec) ==
    [stats EXCEPT ![pos].sales_count = @ + 1]

(* The receipt part of the record callback, for a known seller *)
CountReceipt(stats, pos, rec) ==
    [stats EXCEPT ![pos].sales_count = @ + 1,
                  ![pos].revenue = @ + rec.total_amount * 100]

(* Whether the item callback reaches the end of its try block *)
ItemProcessed(prods, strategy, it) ==
    /\ it.sku \in DOMAIN prods
    /\ CallRevenue(strategy, it, prods[it.sku]).ok

(* Mutant: the cost is not subtracted *)
ProcessItemWithoutCost(stats, pos, prods, strategy, it) ==
    IF ~ItemProcessed(prods, strategy, it) THEN stats
    ELSE LET itemRevenue == CallRevenue(strategy, it, prods[it.sku]).value
         IN [stats EXCEPT ![pos].profit = @ + itemRevenue,
                          ![pos].products_sold = AddSold(@, it.sku, it.quantity)]

(* Mutant: the quantity of an item of an unknown SKU is still recorded *)
ProcessItemUnknownSold(stats, pos, prods, strategy, it) ==
    IF it.sku \notin DOMAIN prods
    THEN [stats EXCEPT ![pos].products_sold = AddSold(@, it.sku, it.quantity)]
    ELSE IF ~ItemProcessed(prods, strategy, it) THEN stats
    ELSE LET cost == prods[it.sku] * it.quantity * 100
             itemRevenue == CallRevenue(strategy, it, prods[it.sku]).value
         IN [stats EXCEPT ![pos].profit = @ + itemRevenue - cost,
                          ![pos].products_sold = AddSold(@, it.sku, it.quantity)]

(* Mutant: sales_count counts the quantities of the items as well *)
ProcessItemCountingSales(stats, pos, prods, strategy, it) ==
    IF ~ItemProcessed(prods, strategy, it) THEN stats
    ELSE LET cost == prods[it.sku] * it.quantity * 100
             itemRevenue == CallRevenue(strategy, it, prods[it.sku]).value
         IN [stats EXCEPT ![pos].profit = @ + itemRevenue - cost,
                          ![pos].sales_count = @ + it.quantity,
                          ![pos].products_sold = AddSold(@, it.sku, it.quantity)]

(* Mutant: the quantity is recorded before the strategy is called *)
ProcessItemSoldFirst(stats, pos, prods, strategy, it) ==
    IF it.sku \notin DOMAIN prods THEN stats
    ELSE IF ~ItemProcessed(prods, strategy, it)
    THEN [stats EXCEPT ![pos].products_sold = AddSold(@, it.sku, it.quantity)]
    ELSE LET cost == prods[it.sku] * it.quantity * 100
             itemRevenue == CallRevenue(strategy, it, prods[it.sku]).value
         IN [stats EXCEPT ![pos].profit = @ + itemRevenue - cost,
                          ![pos].products_sold = AddSold(@, it.sku, it.quantity)]

(* The item callback, for the seller at pos *)
ProcessItem(stats, pos, prods, strategy, it) ==
    IF ~ItemProcessed(prods, strategy, it) THEN stats
    ELSE LET cost == prods[it.sku] * it.quantity * 100
             itemRevenue == CallRevenue(strategy, it, prods[it.sku]).value
             itemProfit == itemRevenue - cost
         IN [stats EXCEPT ![pos].profit = @ + itemProfit,
                          ![pos].products_sold = AddSold(@, it.sku, it.quantity)]

----------------------------------------------------------------------------
(* Ranking *)

(* Mutant: the check of the processed items is dropped *)
NoValidPurchasesUnchecked(count) == FALSE

(* main.js:161: validPurchasesCount === 0 *)
NoValidPurchases(count) == count = 0

(* Mutant: no filter *)
SelectAll(stats) == stats

(* Array.prototype.filter *)
RECURSIVE SelectSales(_)
SelectSales(stats) ==
    IF stats = <<>> THEN <<>>
    ELSE IF Head(stats).sales_count > 0
         THEN <<Head(stats)>> \o SelectSales(Tail(stats))
         ELSE SelectSales(Tail(stats))

(* Mutant: a.profit - b.profit, an ascending sort *)
ProfitBeforeAscending(a, b) == a.profit <= b.profit

(* (a, b) => b.profit - a.profit is negative: a stays before b *)
ProfitBefore(a, b) == a.profit >= b.profit

(* Mutant: x is put before the elements it compares equal to, as a sort     *)
(* that is not stable may do                                                *)
RECURSIVE InsertBeforeEqualProfit(_, _)
InsertBeforeEqualProfit(s, x) ==
    IF s = <<>> THEN <<x>>
    ELSE IF Head(s).profit > x.profit
         THEN <<Head(s)>> \o InsertBeforeEqualProfit(Tail(s), x)
         ELSE <<x>> \o s

(* Stable insertion of x into a sequence sorted by ProfitBefore *)
RECURSIVE InsertByProfit(_, _)
InsertByProfit(s, x) ==
    IF s = <<>> THEN <<x>>
    ELSE IF ProfitBefore(Head(s), x)
         THEN <<Head(s)>> \o InsertByProfit(Tail(s), x)
         ELSE <<x>> \o s

(* sellersArray.sort(...): a stable sort *)
RECURSIVE SortByProfit(_)
SortByProfit(s) ==
    IF s = <<>> THEN <<>>
    ELSE InsertByProfit(SortByProfit(SubSeq(s, 1, Len(s) - 1)), s[Len(s)])

(* (a, b) => b.quantity - a.quantity *)
QuantityBefore(a, b) == a.quantity >= b.quantity

RECURSIVE InsertByQuantity(_, _)
InsertByQuantity(s, x) ==
    IF s = <<>> THEN <<x>>
    ELSE IF QuantityBefore(Head(s), x)
         THEN <<Head(s)>> \o InsertByQuantity(Tail(s), x)
         ELSE <<x>> \o s

RECURSIVE SortByQuantity(_)
SortByQuantity(s) ==
    IF s = <<>> THEN <<>>
    ELSE InsertByQuantity(SortByQuantity(SubSeq(s, 1, Len(s) - 1)), s[Len(s)])

(* Mutant: slice(0, 11) *)
SliceOneMore(s) == SubSeq(s, 1, IF Len(s) < TopN + 1 THEN Len(s) ELSE TopN + 1)

(* .slice(0, 10) *)
Slice(s) == SubSeq(s, 1, IF Len(s) < TopN THEN Len(s) ELSE TopN)

(* Object.entries(...).map(...).sort(...).slice(0, 10).map(item => item.sku) *)
TopProducts(sold) ==
    LET top == Slice(SortByQuantity(sold))
    IN [k \in 1..Len(top) |-> top[k].sku]

(* Mutant: the top products are formed whether calculateBonus throws or not *)
WithBonusTopKept(seller, strategy, idx, total) ==
    LET r == CallBonus(strategy, idx, total, seller)
    IN [id |-> seller.id, revenue |-> seller.revenue, profit |-> seller.profit,
        sales_count |-> seller.sales_count,
        products_sold |-> seller.products_sold,
        bonus |-> IF r.ok THEN r.value ELSE 0,
        top_products |-> TopProducts(seller.products_sold)]

(* The body of the bonus loop for the seller at index idx (0-based) *)
WithBonus(seller, strategy, idx, total) ==
    LET r == CallBonus(strategy, idx, total, seller)
    IN IF r.ok
       THEN [id |-> seller.id, revenue |-> seller.revenue, profit |-> seller.profit,
             sales_count |-> seller.sales_count,
             products_sold |-> seller.products_sold,
             bonus |-> r.value, top_products |-> TopProducts(seller.products_sold)]
       ELSE [id |-> seller.id, revenue |-> seller.revenue, profit |-> seller.profit,
             sales_count |-> seller.sales_count,
             products_sold |-> seller.products_sold,
             bonus |-> 0, top_products |-> <<>>]

(* One entry of the returned collection *)
ReportEntry(seller) ==
    [seller_id |-> seller.id,
     revenue |-> Round2(seller.revenue),
     profit |-> Round2(seller.profit),
     sales_count |-> seller.sales_count,
     top_products |-> seller.top_products,
     bonus |-> seller.bonus]

(* main.js:165-207 as a function of the accumulators the fold leaves *)
ReportOf(stats, opts) ==
    LET sorted == SortByProfit(SelectSales(stats))
        ranked == [k \in 1..Len(sorted) |->
                     WithBonus(sorted[k], opts.calculateBonus, k - 1, Len(sorted))]
    IN [k \in 1..Len(ranked) |-> ReportEntry(ranked[k])]

----------------------------------------------------------------------------
(* The inputs *)

SellerLists == {<<1, 2>>, <<2, 1>>}

Catalogue == (1 :> 1000) @@ (2 :> 3)

OptionsPool ==
    {[calculateRevenue |-> "calculateSimpleRevenue",
      calculateBonus |-> "calculateBonusByProfit"],
     [calculateRevenue |-> "rawRevenue",
      calculateBonus |-> "calculateBonusByProfit"],
     [calculateRevenue |-> "strictRevenue",
      calculateBonus |-> "failingBonus"]}

(* seller_id 0 is the id of no seller *)
RecordPool ==
    {[seller_id |-> 0, total_amount |-> 4000],
     [seller_id |-> 1, total_amount |-> 4000],
     [seller_id |-> 1, total_amount |-> 7],
     [seller_id |-> 2, total_amount |-> 7]}

(* sku 0 is the SKU of no product; the last item has no discount field *)
ItemPool ==
    {[sku |-> 1, quantity |-> 2, sale_price |-> 2000, discount |-> 0],
     [sku |-> 2, quantity |-> 1, sale_price |-> 5, discount |-> 10],
     [sku |-> 0, quantity |-> 1, sale_price |-> 5, discount |-> 0],
     [sku |-> 1, quantity |-> 1, sale_price |-> 5]}

NoRecord == [seller_id |-> 0, total_amount |-> 0]
NoItem == [sku |-> 0, quantity |-> 0, sale_price |-> 0]

----------------------------------------------------------------------------
(* The kinds of the arguments.  data and options are "object" or "missing"  *)
(* (undefined or null); each collection of data is a non-empty "array", an  *)
(* "empty" array, "missing" or an "object" that is no array; each strategy  *)
(* of options is a "function", "missing" or a "string".                     *)

ValidArgs ==
    [data |-> "object", purchase_records |-> "array", products |-> "array",
     sellers |-> "array", options |-> "object",
     calculateRevenue |-> "function", calculateBonus |-> "function"]

(* The valid arguments, and those with one defect *)
ArgsPool ==
    {ValidArgs, [ValidArgs EXCEPT !.data = "missing"],
     [ValidArgs EXCEPT !.options = "missing"]}
    \cup {[ValidArgs EXCEPT ![f] = k] :
             f \in {"purchase_records", "products", "sellers"},
             k \in {"empty", "missing", "object"}}
    \cup {[ValidArgs EXCEPT ![f] = k] :
             f \in {"calculateRevenue", "calculateBonus"},
             k \in {"missing", "string"}}

(* Mutant: the length of data.sellers is not checked *)
ValidationErrorSellersUnchecked(a) ==
    IF \/ a.data = "missing"
       \/ a.purchase_records \notin {"array", "empty"}
       \/ a.products \notin {"array", "empty"}
       \/ a.sellers \notin {"array", "empty"}
       \/ a.purchase_records = "empty"
       \/ a.products = "empty"
    THEN "invalid data"
    ELSE IF a.options = "missing" THEN "no options"
    ELSE IF a.calculateRevenue = "missing" \/ a.calculateBonus = "missing"
    THEN "no strategies"
    ELSE IF a.calculateRevenue # "function" \/ a.calculateBonus # "function"
    THEN "strategies not functions"
    ELSE "none"

(* main.js:52-77: the message of the Error the checks throw, or "none" *)
ValidationError(a) ==
    IF \/ a.data = "missing"
       \/ a.purchase_records \notin {"array", "empty"}
       \/ a.products \notin {"array", "empty"}
       \/ a.sellers \notin {"array", "empty"}
       \/ a.purchase_records = "empty"
       \/ a.products = "empty"
       \/ a.sellers = "empty"
    THEN "invalid data"
    ELSE IF a.options = "missing" THEN "no options"
    ELSE IF a.calculateRevenue = "missing" \/ a.calculateBonus = "missing"
    THEN "no strategies"
    ELSE IF a.calculateRevenue # "function" \/ a.calculateBonus # "function"
    THEN "strategies not functions"
    ELSE "none"

----------------------------------------------------------------------------
(* History: per seller id, computed from the records and items taken alone  *)

NewLedger == [receipts |-> 0, amount |-> 0, items |-> 0,
              itemRevenue |-> 0, itemProfit |-> 0]

LedgerReceipt(l, rec) ==
    IF rec.seller_id \in DOMAIN l
    THEN [l EXCEPT ![rec.seller_id].receipts = @ + 1,
                   ![rec.seller_id].amount = @ + rec.total_amount * 100]
    ELSE l

LedgerItem(l, rec, prods, strategy, it) ==
    IF /\ rec.seller_id \in DOMAIN l
       /\ it.sku \in DOMAIN prods
       /\ CallRevenue(strategy, it, prods[it.sku]).ok
    THEN LET rev == CallRevenue(strategy, it, prods[it.sku]).value
         IN [l EXCEPT ![rec.seller_id].items = @ + 1,
                      ![rec.seller_id].itemRevenue = @ + rev,
                      ![rec.seller_id].itemProfit =
                            @ + rev - prods[it.sku] * it.quantity * 100]
    ELSE l

----------------------------------------------------------------------------
(* The fold over purchase_records, as a function of the fold's variables   *)

FoldStart(ss) ==
    [sellerStats |-> InitialStats(ss), record |-> NoRecord, item |-> NoItem,
     nrec |-> 0, nitem |-> 0, validPurchasesCount |-> 0, skippedPurchases |-> 0,
     skippedItems |-> 0, revenueCalls |-> 0, lastRevenue |-> 0,
     pc |-> "records", ledger |-> [id \in Range(ss) |-> NewLedger]]

(* Mutant: a record of an unknown seller is counted for the first seller *)
AfterRecordFirstSeller(st, rec) ==
    LET found == SellerPos(st.sellerStats, rec.seller_id)
        pos == IF found = 0 THEN 1 ELSE found
    IN [st EXCEPT !.record = rec, !.item = NoItem, !.nrec = @ + 1,
                  !.skippedItems = 0, !.lastRevenue = 0,
                  !.ledger = LedgerReceipt(@, rec),
                  !.sellerStats = CountReceipt(@, pos, rec),
                  !.pc = "items"]

(* main.js:102-116: the callback of purchase_records.forEach up to the      *)
(* items loop.                                                              *)
AfterRecord(st, rec) ==
    LET pos == SellerPos(st.sellerStats, rec.seller_id)
    IN IF pos = 0
       THEN [st EXCEPT !.record = rec, !.item = NoItem, !.nrec = @ + 1,
                       !.skippedItems = 0, !.lastRevenue = 0,
                       !.ledger = LedgerReceipt(@, rec),
                       !.skippedPurchases = @ + 1,
                       !.pc = "records"]
       ELSE [st EXCEPT !.record = rec, !.item = NoItem, !.nrec = @ + 1,
                       !.skippedItems = 0, !.lastRevenue = 0,
                       !.ledger = LedgerReceipt(@, rec),
                       !.sellerStats = CountReceipt(@, pos, rec),
                       !.pc = "items"]

(* main.js:119-152: the callback of record.items.forEach *)
AfterItem(st, prods, strategy, it) ==
    LET pos == SellerPos(st.sellerStats, st.record.seller_id)
        known == it.sku \in DOMAIN prods
        done == ItemProcessed(prods, strategy, it)
    IN [st EXCEPT !.item = it, !.nitem = @ + 1,
                  !.sellerStats = ProcessItem(@, pos, prods, strategy, it),
                  !.ledger = LedgerItem(@, st.record, prods, strategy, it),
                  !.skippedItems = IF known THEN @ ELSE @ + 1,
                  !.revenueCalls = IF known THEN @ + 1 ELSE @,
                  !.lastRevenue =
                      IF done THEN CallRevenue(strategy, it, prods[it.sku]).value
                      ELSE 0,
                  !.validPurchasesCount = IF done THEN @ + 1 ELSE @]

RECURSIVE AfterItems(_, _, _, _)
AfterItems(st, prods, strategy, items) ==
    IF items = <<>> THEN st
    ELSE AfterItems(AfterItem(st, prods, strategy, Head(items)),
                    prods, strategy, Tail(items))

(* The fold over whole records, each with its items *)
RECURSIVE AfterRecords(_, _, _, _)
AfterRecords(st, prods, strategy, recs) ==
    IF recs = <<>> THEN st
    ELSE LET rec == Head(recs)
             header == [seller_id |-> rec.seller_id,
                        total_amount |-> rec.total_amount]
             st1 == AfterRecord(st, header)
             st2 == IF st1.pc = "items"
                    THEN AfterItems(st1, prods, strategy, rec.items)
                    ELSE st1
         IN AfterRecords(st2, prods, strategy, Tail(recs))

FoldVars ==
    [sellerStats |-> sellerStats, record |-> record, item |-> item,
     nrec |-> nrec, nitem |-> nitem,
     validPurchasesCount |-> validPurchasesCount,
     skippedPurchases |-> skippedPurchases, skippedItems |-> skippedItems,
     revenueCalls |-> revenueCalls, lastRevenue |-> lastRevenue, pc |-> pc,
     ledger |-> ledger]

SetFold(st) ==
    /\ sellerStats' = st.sellerStats
    /\ record' = st.record
    /\ item' = st.item
    /\ nrec' = st.nrec
    /\ nitem' = st.nitem
    /\ validPurchasesCount' = st.validPurchasesCount
    /\ skippedPurchases' = st.skippedPurchases
    /\ skippedItems' = st.skippedItems
    /\ revenueCalls' = st.revenueCalls
    /\ lastRevenue' = st.lastRevenue
    /\ pc' = st.pc
    /\ ledger' = st.ledger

----------------------------------------------------------------------------
(* analyzeSalesData *)

Init ==
    /\ args \in ArgsPool
    /\ sellers \in (IF args.sellers = "array" THEN SellerLists ELSE {<<>>})
    /\ products = (IF args.products = "array" THEN Catalogue ELSE <<>>)
    /\ purchase_records = <<>>
    /\ options \in OptionsPool
    /\ calls = 1
    /\ firstReport = <<>>
    /\ pc = "start"
    /\ sellerStats = <<>>
    /\ record = NoRecord
    /\ item = NoItem
    /\ nrec = 0
    /\ nitem = 0
    /\ validPurchasesCount = 0
    /\ skippedPurchases = 0
    /\ skippedItems = 0
    /\ revenueCalls = 0
    /\ lastRevenue = 0
    /\ sellersArray = <<>>
    /\ index = 0
    /\ bonusCalls = <<>>
    /\ bonusFailed = {}
    /\ report = <<>>
    /\ error = "none"
    /\ ledger = [id \in Range(sellers) |-> NewLedger]

(* main.js:52-100: the checks of data and options, then the accumulators    *)
(* and the two indexes.                                                     *)
Prepare ==
    /\ pc = "start"
    /\ IF ValidationError(args) # "none"
       THEN /\ pc' = "error"
            /\ error' = ValidationError(args)
            /\ UNCHANGED <<sellerStats, validPurchasesCount, skippedPurchases>>
       ELSE /\ pc' = "records"
            /\ sellerStats' = InitialStats(sellers)
            /\ validPurchasesCount' = 0
            /\ skippedPurchases' = 0
            /\ UNCHANGED error
    /\ UNCHANGED <<input, caller, record, item, nrec, nitem, skippedItems,
                   revenueCalls, lastRevenue, sellersArray, index, bonusCalls,
                   bonusFailed, report, ledger>>

(* The record callback for the next record of the input: the items of the   *)
(* record before it, if any, are exhausted.                                 *)
RecordStep ==
    /\ pc \in {"records", "items"}
    /\ nrec < MaxRecords
    /\ \E rec \in RecordPool : SetFold(AfterRecord(FoldVars, rec))
    /\ UNCHANGED <<input, caller, sellersArray, index, bonusCalls, bonusFailed,
                   report, error>>

(* The item callback for the next line item of the current record *)
ItemStep ==
    /\ pc = "items"
    /\ nitem < MaxLineItems
    /\ \E it \in ItemPool :
          SetFold(AfterItem(FoldVars, products, options.calculateRevenue, it))
    /\ UNCHANGED <<input, caller, sellersArray, index, bonusCalls, bonusFailed,
                   report, error>>

(* main.js:155-177: after the last record, the two checks, the filter and   *)
(* the sort.                                                                *)
Rank ==
    /\ pc \in {"records", "items"}
    /\ nrec >= 1
    /\ IF NoValidPurchases(validPurchasesCount)
       THEN /\ pc' = "error"
            /\ error' = "no valid purchases"
            /\ UNCHANGED sellersArray
       ELSE IF SelectSales(sellerStats) = <<>>
       THEN /\ pc' = "error"
            /\ error' = "no sales"
            /\ sellersArray' = <<>>
       ELSE /\ pc' = "bonus"
            /\ sellersArray' = SortByProfit(SelectSales(sellerStats))
            /\ UNCHANGED error
    /\ index' = 0
    /\ UNCHANGED <<input, caller, sellerStats, record, item, nrec, nitem,
                   validPurchasesCount, skippedPurchases, skippedItems,
                   revenueCalls, lastRevenue, bonusCalls, bonusFailed, report,
                   ledger>>

(* main.js:179-196: the callback of sellersArray.forEach *)
BonusStep ==
    /\ pc = "bonus"
    /\ index < Len(sellersArray)
    /\ LET seller == sellersArray[index + 1]
           total == Len(sellersArray)
           strategy == options.calculateBonus
       IN /\ sellersArray' =
                [sellersArray EXCEPT ![index + 1] =
                    WithBonus(seller, strategy, index, total)]
          /\ bonusCalls' =
                Append(bonusCalls, [index |-> index, total |-> total, id |-> seller.id])
          /\ bonusFailed' =
                IF CallBonus(strategy, index, total, seller).ok THEN bonusFailed
                ELSE bonusFailed \cup {index}
    /\ index' = index + 1
    /\ UNCHANGED <<input, caller, pc, sellerStats, record, item, nrec, nitem,
                   validPurchasesCount, skippedPurchases, skippedItems,
                   revenueCalls, lastRevenue, report, error, ledger>>

(* main.js:198-207 *)
Return ==
    /\ pc = "bonus"
    /\ index = Len(sellersArray)
    /\ report' = [k \in 1..Len(sellersArray) |-> ReportEntry(sellersArray[k])]
    /\ pc' = "done"
    /\ UNCHANGED <<input, caller, sellerStats, record, item, nrec, nitem,
                   validPurchasesCount, skippedPurchases, skippedItems,
                   revenueCalls, lastRevenue, sellersArray, index, bonusCalls,
                   bonusFailed, error, ledger>>

Next == Prepare \/ RecordStep \/ ItemStep \/ Rank \/ BonusStep \/ Return

Spec == Init /\ [][Next]_vars

----------------------------------------------------------------------------
(* The ranking alone, from the states the fold leaves for inputs with more  *)
(* sellers: each seller has no receipt, or one receipt with one line item.  *)

RankChoices == ItemPool \cup {NoItem}

RankRecords(ss, choice) ==
    LET Pick(k) == IF choice[ss[k]] = NoItem THEN <<>>
                   ELSE <<[seller_id |-> ss[k], total_amount |-> 4000,
                           items |-> <<choice[ss[k]]>>]>>
        F[k \in 0..Len(ss)] == IF k = 0 THEN <<>> ELSE F[k - 1] \o Pick(k)
    IN F[Len(ss)]

Ascending(n) == [k \in 1..n |-> k]
Descending(n) == [k \in 1..n |-> n + 1 - k]

RankOptions ==
    {[calculateRevenue |-> "calculateSimpleRevenue",
      calculateBonus |-> "calculateBonusByProfit"],
     [calculateRevenue |-> "rawRevenue",
      calculateBonus |-> "failingBonus"]}

(* The variables after the fold of recs *)
Folded(ss, prods, opts, recs) ==
    \E st \in {AfterRecords(FoldStart(ss), prods, opts.calculateRevenue, recs)} :
       /\ args = ValidArgs
       /\ sellers = ss
       /\ products = prods
       /\ purchase_records = <<>>
       /\ options = opts
       /\ calls = 1
       /\ firstReport = <<>>
       /\ pc = st.pc
       /\ sellerStats = st.sellerStats
       /\ record = st.record
       /\ item = st.item
       /\ nrec = st.nrec
       /\ nitem = st.nitem
       /\ validPurchasesCount = st.validPurchasesCount
       /\ skippedPurchases = st.skippedPurchases
       /\ skippedItems = st.skippedItems
       /\ revenueCalls = st.revenueCalls
       /\ lastRevenue = st.lastRevenue
       /\ ledger = st.ledger
       /\ sellersArray = <<>>
       /\ index = 0
       /\ bonusCalls = <<>>
       /\ bonusFailed = {}
       /\ report = <<>>
       /\ error = "none"

InitRank ==
    \E n \in 1..MaxSellers :
       \E ss \in {Ascending(n), Descending(n)}, opts \in RankOptions :
          \E choice \in [1..n -> RankChoices] :
             /\ {id \in 1..n : choice[id] # NoItem} # {}
             /\ Folded(ss, Catalogue, opts, RankRecords(ss, choice))

NextRank == Rank \/ BonusStep \/ Return

SpecRank == InitRank /\ [][NextRank]_vars

----------------------------------------------------------------------------
(* The top products, from the states the fold leaves for inputs with more   *)
(* products: seller 1 has one receipt with one line item per SKU 1..n, in    *)
(* ascending or descending order of SKU, seller 2 one receipt with one item. *)

WideCatalogue == [k \in 1..MaxSkus |-> 1000]

WideItems(order, quantity) ==
    [k \in 1..Len(order) |->
        [sku |-> order[k], quantity |-> quantity[order[k]],
         sale_price |-> 2000, discount |-> 0]]

WideRecords(order, quantity) ==
    <<[seller_id |-> 1, total_amount |-> 4000,
       items |-> WideItems(order, quantity)],
      [seller_id |-> 2, total_amount |-> 4000,
       items |-> <<[sku |-> 1, quantity |-> 2, sale_price |-> 2000,
                    discount |-> 0]>>]>>

TopOptions ==
    {[calculateRevenue |-> "calculateSimpleRevenue",
      calculateBonus |-> "calculateBonusByProfit"],
     [calculateRevenue |-> "calculateSimpleRevenue",
      calculateBonus |-> "failingBonus"]}

InitTop ==
    \E n \in 1..MaxSkus :
       \E order \in {Ascending(n), Descending(n)}, opts \in TopOptions :
          \E quantity \in [1..n -> {1, 2}] :
             Folded(<<1, 2>>, WideCatalogue, opts, WideRecords(order, quantity))

SpecTop == InitTop /\ [][NextRank]_vars

----------------------------------------------------------------------------
(* Two calls in a row on the same arguments, the purchase records given     *)
(* whole: each of two sellers has no receipt, or one receipt with one line  *)
(* item.  The second call starts in the state the first call has left: what *)
(* it does not set itself keeps its value.                                  *)

InitTwice ==
    \E ss \in SellerLists, opts \in OptionsPool :
       \E choice \in [Range(ss) -> RankChoices] :
          /\ {id \in Range(ss) : choice[id] # NoItem} # {}
          /\ args = ValidArgs
          /\ sellers = ss
          /\ products = Catalogue
          /\ purchase_records = RankRecords(ss, choice)
          /\ options = opts
          /\ calls = 1
          /\ firstReport = <<>>
          /\ pc = "start"
          /\ sellerStats = <<>>
          /\ record = NoRecord
          /\ item = NoItem
          /\ nrec = 0
          /\ nitem = 0
          /\ validPurchasesCount = 0
          /\ skippedPurchases = 0
          /\ skippedItems = 0
          /\ revenueCalls = 0
          /\ lastRevenue = 0
          /\ sellersArray = <<>>
          /\ index = 0
          /\ bonusCalls = <<>>
          /\ bonusFailed = {}
          /\ report = <<>>
          /\ error = "none"
          /\ ledger = [id \in Range(ss) |-> NewLedger]

(* main.js:102-153: data.purchase_records.forEach, all of it *)
Fold ==
    /\ pc = "records"
    /\ nrec = 0
    /\ purchase_records # <<>>
    /\ SetFold(AfterRecords(FoldVars, products, options.calculateRevenue,
                            purchase_records))
    /\ UNCHANGED <<input, caller, sellersArray, index, bonusCalls, bonusFailed,
                   report, error>>

(* The caller keeps the report and calls analyzeSalesData again with the    *)
(* same arguments; what only observes the call starts anew.                 *)
CallAgain ==
    /\ pc = "done"
    /\ calls = 1
    /\ calls' = 2
    /\ firstReport' = report
    /\ pc' = "start"
    /\ record' = NoRecord
    /\ item' = NoItem
    /\ nrec' = 0
    /\ nitem' = 0
    /\ skippedItems' = 0
    /\ revenueCalls' = 0
    /\ lastRevenue' = 0
    /\ bonusCalls' = <<>>
    /\ bonusFailed' = {}
    /\ ledger' = [id \in Range(sellers) |-> NewLedger]
    /\ UNCHANGED <<input, sellerStats, validPurchasesCount, skippedPurchases,
                   sellersArray, index, report, error>>

NextTwice == Prepare \/ Fold \/ Rank \/ BonusStep \/ Return \/ CallAgain

SpecTwice == InitTwice /\ [][NextTwice]_vars

----------------------------------------------------------------------------
(* calculateSimpleRevenue alone: one call, on any line item of a small      *)
(* price, with or without a discount field, and any product.                *)

Discounts == {0, 10, 30, 50, 90, 100}

RevenueItems ==
    [sku : {1}, quantity : 1..MaxQuantity, sale_price : 0..MaxPrice,
     discount : Discounts]
    \cup [sku : {1}, quantity : 1..MaxQuantity, sale_price : 0..MaxPrice]

RevenueCatalogues == {1 :> 0, 1 :> 1000}

InitRevenue ==
    /\ args = ValidArgs
    /\ sellers = <<1>>
    /\ products \in RevenueCatalogues
    /\ purchase_records = <<>>
    /\ options = [calculateRevenue |-> "calculateSimpleRevenue",
                  calculateBonus |-> "calculateBonusByProfit"]
    /\ calls = 1
    /\ firstReport = <<>>
    /\ pc = "revenue"
    /\ sellerStats = InitialStats(sellers)
    /\ record = [seller_id |-> 1, total_amount |-> 0]
    /\ item \in RevenueItems
    /\ nrec = 1
    /\ nitem = 1
    /\ validPurchasesCount = 0
    /\ skippedPurchases = 0
    /\ skippedItems = 0
    /\ revenueCalls = 0
    /\ lastRevenue = 0
    /\ sellersArray = <<>>
    /\ index = 0
    /\ bonusCalls = <<>>
    /\ bonusFailed = {}
    /\ report = <<>>
    /\ error = "none"
    /\ ledger = [id \in Range(sellers) |-> NewLedger]

(* calculateSimpleRevenue(item, product) *)
CallSimpleRevenue ==
    /\ pc = "revenue"
    /\ lastRevenue' = calculateSimpleRevenue(item, products[item.sku])
    /\ revenueCalls' = revenueCalls + 1
    /\ pc' = "returned"
    /\ UNCHANGED <<input, caller, sellerStats, record, item, nrec, nitem,
                   validPurchasesCount, skippedPurchases, skippedItems,
                   sellersArray, index, bonusCalls, bonusFailed, report, error,
                   ledger>>

NextRevenue == CallSimpleRevenue

SpecRevenue == InitRevenue /\ [][NextRevenue]_vars

----------------------------------------------------------------------------
(* Properties *)

Done == pc = "done"

ReferenceBonus == options.calculateBonus = "calculateBonusByProfit"

(* The position of seller id in data.sellers *)
InputPos(id) == CHOOSE k \in 1..Len(sellers) : sellers[k] = id

(* The ids of the report's entries *)
ReportIds == {report[k].seller_id : k \in 1..Len(report)}

(* C1: the report is sorted by the rounded profit, non-increasing: no entry *)
(* has a larger profit than the entry before it.                            *)
C1_SortedByProfit ==
    Done => \A k \in 2..Len(report) : report[k].profit <= report[k - 1].profit

(* A report of three or more entries whose first two are not in the order   *)
(* of the input, with distinct profits, the last one a loss.                *)
C1_Witness ==
    /\ Done
    /\ Len(report) >= 3
    /\ InputPos(report[1].seller_id) > InputPos(report[2].seller_id)
    /\ report[1].profit > report[2].profit
    /\ report[Len(report)].profit < 0

(* C2: with calculateBonusByProfit the last entry of the report has bonus   *)
(* 0, whatever the number of entries (a sole seller included).              *)
C2_LastGetsNoBonus ==
    (Done /\ ReferenceBonus) => report[Len(report)].bonus = 0

(* The schedule of the reference policy for total >= 4, in hundredths *)
Schedule(idx, total) ==
    CASE idx = 0 -> 15
      [] idx \in {1, 2} -> 10
      [] idx = total - 1 -> 0
      [] OTHER -> 5

(* C3: calculateBonus is called once per entry of the report, in order,     *)
(* with the entry's 0-based rank and the number of entries; with            *)
(* calculateBonusByProfit and four or more entries the bonus of the entry   *)
(* at each rank is 0.15, 0.10, 0.10, then 0.05, and 0 for the last.         *)
C3_BonusSchedule ==
    Done =>
        /\ Len(bonusCalls) = Len(report)
        /\ \A k \in 1..Len(report) :
              bonusCalls[k] = [index |-> k - 1, total |-> Len(report),
                               id |-> report[k].seller_id]
        /\ (ReferenceBonus /\ Len(report) >= 4) =>
              \A k \in 1..Len(report) :
                 report[k].bonus = Schedule(k - 1, Len(report))

(* A report of five or more entries under the reference policy: the entry   *)
(* at rank 3 is neither among the first three nor the last.                 *)
C3_Witness ==
    /\ Done
    /\ ReferenceBonus
    /\ Len(report) >= 5
    /\ report[4].bonus = 5
    /\ report[Len(report)].bonus = 0

(* C4 as stated: the reported revenue of a seller is the rounded sum of the *)
(* revenue strategy's values over the processed line items of its receipts. *)
C4_RevenueFromItems ==
    Done => \A k \in 1..Len(report) :
               report[k].revenue = Round2(ledger[report[k].seller_id].itemRevenue)

(* C4 as amended: the reported revenue of a seller is the rounded sum of    *)
(* total_amount over the receipts of that seller, whatever their items.     *)
C4_RevenueFromReceipts ==
    /\ \A k \in 1..Len(sellerStats) :
          sellerStats[k].revenue = ledger[sellerStats[k].id].amount
    /\ Done => \A k \in 1..Len(report) :
                  report[k].revenue = Round2(ledger[report[k].seller_id].amount)

(* An entry of a seller with two receipts whose total_amounts differ from   *)
(* what the revenue strategy gave for their items.                          *)
C4_Witness ==
    /\ Done
    /\ \E k \in 1..Len(report) :
          LET l == ledger[report[k].seller_id]
          IN /\ l.receipts = 2
             /\ l.items >= 1
             /\ l.amount # l.itemRevenue
             /\ report[k].revenue = Round2(l.amount)
             /\ report[k].revenue > 0

(* C5: the profit of a seller is, at every point of the fold, the sum of    *)
(* revenue strategy value minus purchase_price * quantity over the line     *)
(* items of its receipts that have a known SKU and for which the strategy   *)
(* returned a value; the reported profit is that sum rounded.               *)
C5_ProfitFromItems ==
    /\ \A k \in 1..Len(sellerStats) :
          sellerStats[k].profit = ledger[sellerStats[k].id].itemProfit
    /\ Done => \A k \in 1..Len(report) :
                  report[k].profit = Round2(ledger[report[k].seller_id].itemProfit)

(* A report with an entry of a seller with two processed line items, after  *)
(* a receipt in which an item of an unknown SKU was skipped, where the      *)
(* rounding changes the profit.                                             *)
C5_Witness ==
    /\ Done
    /\ skippedItems >= 1
    /\ \E k \in 1..Len(report) :
          LET l == ledger[report[k].seller_id]
          IN /\ l.items = 2
             /\ l.itemProfit # 0
             /\ l.itemProfit # report[k].profit * 100

(* The step takes the next purchase record *)
TakesRecord == nrec' = nrec + 1

(* The step takes the next line item *)
TakesItem == nitem' = nitem + 1

(* The quantity products_sold holds for sku, 0 when sku is no key of it *)
SoldQuantity(sold, sku) ==
    IF \E k \in 1..Len(sold) : sold[k].sku = sku
    THEN (CHOOSE e \in Range(sold) : e.sku = sku).quantity
    ELSE 0

SoldSkus(sold) == {sold[k].sku : k \in 1..Len(sold)}

(* C6: a purchase record whose seller_id is the id of no seller raises no   *)
(* error and changes no accumulator and no counter of processed items, the  *)
(* revenue strategy is not called while it is the current record, and the   *)
(* report the accumulators yield is the same before and after it; the       *)
(* report returned is the one the accumulators yield.                       *)
C6_UnknownSellerSkipped ==
    [][/\ (TakesRecord /\ record'.seller_id \notin Range(sellers)) =>
            /\ sellerStats' = sellerStats
            /\ validPurchasesCount' = validPurchasesCount
            /\ revenueCalls' = revenueCalls
            /\ nitem' = nitem
            /\ ledger' = ledger
            /\ skippedPurchases' = skippedPurchases + 1
            /\ pc' = "records"
            /\ error' = "none"
            /\ ReportOf(sellerStats', options) = ReportOf(sellerStats, options)
       /\ (nrec >= 1 /\ record.seller_id \notin Range(sellers) /\ ~TakesRecord) =>
            /\ revenueCalls' = revenueCalls
            /\ sellerStats' = sellerStats
       /\ Done' => report' = ReportOf(sellerStats', options')
      ]_vars

(* A report returned after a record of an unknown seller was skipped as the *)
(* last of two records.                                                     *)
C6_Witness ==
    /\ Done
    /\ nrec = 2
    /\ skippedPurchases = 1
    /\ record.seller_id \notin Range(sellers)
    /\ Len(report) >= 1

(* C7: a line item whose SKU is the SKU of no product leaves every          *)
(* accumulator and the counter of processed items as they were and the      *)
(* items loop goes on; a line item of a known SKU for which the strategy    *)
(* returns adds its quantity to products_sold and its profit to the seller, *)
(* whatever was skipped before it in the receipt; every key of              *)
(* products_sold is the SKU of a product.                                   *)
C7_UnknownSkuSkipped ==
    [][/\ (TakesItem /\ item'.sku \notin DOMAIN products) =>
            /\ sellerStats' = sellerStats
            /\ validPurchasesCount' = validPurchasesCount
            /\ revenueCalls' = revenueCalls
            /\ skippedItems' = skippedItems + 1
            /\ pc' = "items"
            /\ error' = "none"
       /\ (/\ TakesItem
           /\ item'.sku \in DOMAIN products
           /\ CallRevenue(options.calculateRevenue, item', products[item'.sku]).ok) =>
            LET pos == SellerPos(sellerStats, record.seller_id)
                rev == CallRevenue(options.calculateRevenue, item',
                                   products[item'.sku]).value
            IN /\ sellerStats'[pos].profit =
                     sellerStats[pos].profit + rev
                        - products[item'.sku] * item'.quantity * 100
               /\ SoldQuantity(sellerStats'[pos].products_sold, item'.sku) =
                     SoldQuantity(sellerStats[pos].products_sold, item'.sku)
                        + item'.quantity
               /\ validPurchasesCount' = validPurchasesCount + 1
               /\ skippedItems' = skippedItems
       /\ \A k \in 1..Len(sellerStats') :
             SoldSkus(sellerStats'[k].products_sold) \subseteq DOMAIN products
      ]_vars

(* A receipt of three line items, one of an unknown SKU and skipped, the    *)
(* two others processed, the last of them after the skipped one.            *)
C7_Witness ==
    /\ pc = "items"
    /\ nrec = 1
    /\ nitem = 3
    /\ skippedItems = 1
    /\ validPurchasesCount = 2
    /\ item.sku \in DOMAIN products

(* C8: at every point of the fold and in the report, the sales_count of a   *)
(* seller is the number of records taken so far with its seller_id.         *)
C8_SalesCountIsReceipts ==
    /\ \A k \in 1..Len(sellerStats) :
          sellerStats[k].sales_count = ledger[sellerStats[k].id].receipts
    /\ Done => \A k \in 1..Len(report) :
                  report[k].sales_count = ledger[report[k].seller_id].receipts

(* An entry of a seller with two receipts and three line items of a known   *)
(* SKU, on one of which the revenue strategy threw.                         *)
C8_Witness ==
    /\ Done
    /\ revenueCalls = 3
    /\ validPurchasesCount = 2
    /\ \E k \in 1..Len(report) :
          /\ report[k].sales_count = 2
          /\ ledger[report[k].seller_id].items = 2

(* No seller has two entries in the report *)
OneEntryEach ==
    \A k, m \in 1..Len(report) : report[k].seller_id = report[m].seller_id => k = m

(* C9 as stated: the report has one entry for each seller with a processed  *)
(* line item, and no other entry.                                           *)
C9_EntryIffValidSale ==
    Done =>
        /\ OneEntryEach
        /\ ReportIds = {id \in Range(sellers) : ledger[id].items > 0}

(* C9 as amended: the report has one entry for each seller with a receipt   *)
(* (a purchase record with its seller_id), and no other entry.              *)
C9_EntryIffReceipt ==
    Done =>
        /\ OneEntryEach
        /\ ReportIds = {id \in Range(sellers) : ledger[id].receipts > 0}

(* A report with an entry of a seller none of whose line items was          *)
(* processed, from an input with a seller that has no receipt.              *)
C9_Witness ==
    /\ Done
    /\ \E id \in ReportIds : ledger[id].items = 0
    /\ \E id \in Range(sellers) : id \notin ReportIds

(* The accumulator of seller id *)
StatsOf(id) == sellerStats[SellerPos(sellerStats, id)]

(* C10: for every entry whose calculateBonus call did not throw,            *)
(* top_products has at most 10 SKUs, none twice, each a key of the seller's *)
(* products_sold, in non-increasing order of sold quantity, no SKU left out *)
(* was sold in a larger quantity than a listed one, and all SKUs are listed *)
(* when the seller sold 10 or fewer.                                        *)
C10_TopProducts ==
    Done => \A k \in 1..Len(report) :
        (k - 1) \notin bonusFailed =>
            LET top == report[k].top_products
                sold == StatsOf(report[k].seller_id).products_sold
                listed == {top[m] : m \in 1..Len(top)}
            IN /\ Len(top) <= 10
               /\ \A m, n \in 1..Len(top) : top[m] = top[n] => m = n
               /\ listed \subseteq SoldSkus(sold)
               /\ \A m \in 2..Len(top) :
                     SoldQuantity(sold, top[m]) <= SoldQuantity(sold, top[m - 1])
               /\ \A out \in SoldSkus(sold) \ listed : \A in \in listed :
                     SoldQuantity(sold, out) <= SoldQuantity(sold, in)
               /\ Cardinality(SoldSkus(sold)) <= 10 => listed = SoldSkus(sold)

(* An entry, its bonus call not failed, of a seller that sold 11 or more    *)
(* SKUs in two different quantities: top_products has 10 of them.           *)
C10_Witness ==
    /\ Done
    /\ \E k \in 1..Len(report) :
          LET sold == StatsOf(report[k].seller_id).products_sold
          IN /\ (k - 1) \notin bonusFailed
             /\ Len(sold) >= 11
             /\ Len(report[k].top_products) = 10
             /\ \E a, b \in 1..Len(sold) : sold[a].quantity < sold[b].quantity
             /\ SoldQuantity(sold, report[k].top_products[1]) >
                   SoldQuantity(sold, report[k].top_products[10])

(* The preconditions of analyzeSalesData, as the contract lists them *)
Collections == {"purchase_records", "products", "sellers"}
Strategies == {"calculateRevenue", "calculateBonus"}

PreconditionViolated ==
    \/ args.data = "missing"
    \/ \E f \in Collections : args[f] # "array"
    \/ args.options = "missing"
    \/ \E f \in Strategies : args[f] # "function"

(* C11: when a precondition is violated (data missing; sellers, products or *)
(* purchase_records missing, no array or empty; options missing; a strategy *)
(* missing or no function) the call goes from its start to an Error and     *)
(* nowhere else: no accumulator is created, no record is taken, neither     *)
(* strategy is called and no report is returned.                            *)
C11_FailsBeforeAggregation ==
    PreconditionViolated =>
        /\ pc \in {"start", "error"}
        /\ pc = "error" <=> error # "none"
        /\ sellerStats = <<>>
        /\ nrec = 0
        /\ nitem = 0
        /\ validPurchasesCount = 0
        /\ revenueCalls = 0
        /\ bonusCalls = <<>>
        /\ sellersArray = <<>>
        /\ report = <<>>

(* The Error thrown for an empty sellers array *)
C11_Witness ==
    /\ args.sellers = "empty"
    /\ sellers = <<>>
    /\ pc = "error"
    /\ error = "invalid data"
    /\ report = <<>>

(* The line items processed so far, counted from the history *)
ProcessedItems == {id \in DOMAIN ledger : ledger[id].items > 0}

(* C12: the call gets past the checks that follow the fold only when some   *)
(* line item was processed; when none was, it ends in the Error of the      *)
(* first check and returns no report, whatever the sales_count of the       *)
(* sellers.  So a report returned is not empty, and the Error of the second *)
(* check (no seller with sales) is never the one thrown.                    *)
C12_NoProcessedItemFails ==
    /\ pc \in {"bonus", "done"} => ProcessedItems # {}
    /\ error = "no valid purchases" =>
          /\ pc = "error"
          /\ ProcessedItems = {}
          /\ report = <<>>
    /\ Done => Len(report) >= 1
    /\ error # "no sales"

(* The Error of the first check for an input in which a seller has a        *)
(* receipt: a record of an unknown seller was skipped, and in the receipt   *)
(* an item of an unknown SKU was skipped and the revenue strategy threw on   *)
(* another.                                                                 *)
C12_Witness ==
    /\ error = "no valid purchases"
    /\ report = <<>>
    /\ \E k \in 1..Len(sellerStats) : sellerStats[k].sales_count > 0
    /\ skippedPurchases = 1
    /\ skippedItems = 1
    /\ revenueCalls = 1

(* sale_price * quantity * (1 - discount / 100) in hundredths of a cent,    *)
(* from the price in cents                                                  *)
ExactRevenue(purchase) ==
    purchase.sale_price * purchase.quantity
       * (100 - (IF "discount" \in DOMAIN purchase THEN purchase.discount ELSE 0))

C14_SameReportTwice ==
    [][/\ input' = input
       /\ calls' = 2 => pc' # "error"
       /\ (calls' = 2 /\ pc' = "done") =>
             /\ Len(report') = Len(firstReport')
             /\ \A k \in 1..Len(report') : report'[k] = firstReport'[k]
      ]_vars

(* The second call has returned a report of two entries with receipts,      *)
(* profits and top products.                                                *)
C14_Witness ==
    /\ calls = 2
    /\ pc = "done"
    /\ Len(firstReport) = 2
    /\ report = firstReport
    /\ report[1].profit # 0
    /\ report[1].sales_count = 1
    /\ report[2].top_products # <<>>

C16_StableRanking ==
    Done => \A k, m \in 1..Len(report) :
        (/\ k < m
         /\ StatsOf(report[k].seller_id).profit = StatsOf(report[m].seller_id).profit)
        => /\ InputPos(report[k].seller_id) < InputPos(report[m].seller_id)
           /\ bonusCalls[k].id = report[k].seller_id
           /\ bonusCalls[m].id = report[m].seller_id
           /\ bonusCalls[k].index < bonusCalls[m].index

(* Three sellers of the same profit, given in descending order of id, rank  *)
(* above a seller of a smaller profit that comes before them in the input,  *)
(* and get the bonuses of the ranks 0, 1 and 2 in the order of the input.   *)
C16_Witness ==
    /\ Done
    /\ ReferenceBonus
    /\ Len(report) >= 4
    /\ \A k \in 1..2 :
          /\ StatsOf(report[k].seller_id).profit = StatsOf(report[k + 1].seller_id).profit
          /\ report[k].seller_id > report[k + 1].seller_id
    /\ InputPos(report[4].seller_id) < InputPos(report[1].seller_id)
    /\ report[4].profit < report[3].profit
    /\ report[1].bonus = 15
    /\ report[2].bonus = 10

(* The report of the same accumulators had calculateBonus not thrown: the   *)
(* failing strategy is calculateBonusByProfit but for its throw.            *)
ReportUnfailed ==
    ReportOf(sellerStats, [options EXCEPT !.calculateBonus = "calculateBonusByProfit"])

(* C17: when calculateBonus throws for one seller the call still returns a  *)
(* report, with as many entries and the same sellers at the same ranks as   *)
(* had it not thrown; the entry of that seller has bonus 0, no top product, *)
(* and the revenue, profit and sales_count it would have had; every other   *)
(* entry is the one it would have been.                                     *)
C17_BonusFailureIsolated ==
    /\ (pc \in {"bonus", "done"} /\ bonusFailed # {}) => error = "none"
    /\ (Done /\ bonusFailed # {}) =>
          /\ Len(report) = Len(ReportUnfailed)
          /\ \A k \in 1..Len(report) :
                IF (k - 1) \in bonusFailed
                THEN /\ report[k].bonus = 0
                     /\ report[k].top_products = <<>>
                     /\ report[k].seller_id = ReportUnfailed[k].seller_id
                     /\ report[k].revenue = ReportUnfailed[k].revenue
                     /\ report[k].profit = ReportUnfailed[k].profit
                     /\ report[k].sales_count = ReportUnfailed[k].sales_count
                ELSE report[k] = ReportUnfailed[k]

(* A report of three or more entries returned after calculateBonus threw    *)
(* for the second of them, a seller that had sold products; the entries     *)
(* around it have their bonus and their top products.                       *)
C17_Witness ==
    /\ Done
    /\ bonusFailed = {1}
    /\ Len(report) >= 3
    /\ StatsOf(report[2].seller_id).products_sold # <<>>
    /\ report[2].top_products = <<>>
    /\ report[2].profit # 0
    /\ report[1].bonus = 15
    /\ report[1].top_products # <<>>
    /\ report[3].bonus = 10
    /\ report[3].top_products # <<>>

(* The revenue strategy throws on the line item it, a known SKU *)
RevenueThrows(it) ==
    /\ it.sku \in DOMAIN products
    /\ ~CallRevenue(options.calculateRevenue, it, products[it.sku]).ok

(* C18: a line item on which the revenue strategy throws raises no error    *)
(* of the call and leaves every accumulator (profit, products_sold, revenue *)
(* and the sales_count the receipt has already been counted in) and the     *)
(* counter of processed items as they were; after it the next line item and *)
(* the next record are taken as after any other item.                       *)
C18_RevenueFailureDropsItem ==
    [][/\ (TakesItem /\ RevenueThrows(item')) =>
            /\ revenueCalls' = revenueCalls + 1
            /\ sellerStats' = sellerStats
            /\ sellerStats'[SellerPos(sellerStats, record.seller_id)].sales_count >= 1
            /\ validPurchasesCount' = validPurchasesCount
            /\ ledger' = ledger
            /\ pc' = "items"
            /\ error' = "none"
       /\ (nitem >= 1 /\ RevenueThrows(item) /\ TakesItem /\ ~RevenueThrows(item')
              /\ item'.sku \in DOMAIN products) =>
            /\ validPurchasesCount' = validPurchasesCount + 1
            /\ sellerStats' # sellerStats
       /\ (nitem >= 1 /\ RevenueThrows(item) /\ TakesRecord
              /\ record'.seller_id \in Range(sellers)) =>
            LET pos == SellerPos(sellerStats, record'.seller_id)
            IN /\ sellerStats'[pos].sales_count = sellerStats[pos].sales_count + 1
               /\ pc' = "items"
      ]_vars

(* The strategy threw on one of three line items of a known SKU and the    *)
(* two others were processed, the last of them after the throw, in the      *)
(* second receipt; the seller of the first receipt has it counted and       *)
(* nothing else.                                                            *)
C18_Witness ==
    /\ pc = "items"
    /\ ItemProcessed(products, options.calculateRevenue, item)
    /\ nrec = 2
    /\ nitem = 3
    /\ revenueCalls = 3
    /\ validPurchasesCount = 2
    /\ \E k, m \in 1..Len(sellerStats) :
          /\ sellerStats[k].sales_count = 1
          /\ sellerStats[k].products_sold = <<>>
          /\ sellerStats[k].profit = 0
          /\ sellerStats[m].sales_count = 1
          /\ sellerStats[m].id = record.seller_id
          /\ ledger[sellerStats[m].id].items = 2

====
